---- MODULE Spec2Model ----
(***************************************************************************)
(* Aadhaar OTP e-signature engine of Legal-Assist-Agent:                   *)
(*   backend/ai/signature/signature_manager.py   SignatureManager          *)
(*   backend/ai/signature/esign_service.py       NSDLESignService          *)
(*   backend/ai/signature/aadhaar_validator.py   AadhaarValidator          *)
(*   backend/ai/signature/certificate_generator.py CertificateGenerator    *)
(*   backend/ai/signature/pdf_processor.py       PDFProcessor              *)
(*   backend/api/signature_routes.py             one connection per request*)
(*                                                                         *)
(* Every HTTP request runs SignatureManager on its own database connection *)
(* (signature_routes.py: get_db_connection per request), so a handler is a *)
(* process that first SELECTs a row (a snapshot) and later UPDATEs it; the *)
(* rows, the files on disk and the provider are shared.                    *)
(***************************************************************************)
EXTENDS Integers, Sequences, FiniteSets, Bags, TLC

(* ------------------------------ bounds -------------------------------- *)
\* rows of digital_signatures the model lets initiate_signature insert
MaxSigs == 1
\* request handlers (connections) that can be in flight at once
MaxHandlers == 2
\* the clock runs from 0 to MaxTime minutes in steps of TickMinutes
MaxTime == 30
TickMinutes == 15
\* rows of signature_audit_log the model lets the handlers write
MaxAudit == 5
\* rows of users
MaxUsers == 2
\* rows of signature_workflows the model lets create_workflow insert
MaxWorkflows == 1
\* signatory ids (SERIAL) the model lets create_workflow and add_signatory use
MaxSignatories == 2

(* ------------------------- program constants -------------------------- *)
\* timedelta(minutes=10): validity of an OTP
OtpValidityMinutes == 10
\* if signature['retry_count'] >= 3
MaxOtpRetries == 3

SigIds == 1..MaxSigs
\* rows of user_documents: one document, which every signature request signs
Docs == {1}
\* the document ids a caller may name: 0 is no row of user_documents
DocInputs == Docs \union {0}
Users == 1..MaxUsers

\* SQL NULL / Python None: the empty sequence; a value v is <<v>>
NULL == <<>>
Val(v) == <<v>>

\* demo_otp = "123456"
DemoOtp == "123456"
\* the OTPs a caller may type: the one that was sent and a wrong one
Otps == {DemoOtp, "000000"}

VARIABLES
    now,                 \* datetime.now(), in minutes
    is_demo_mode,        \* NSDLESignService.is_demo_mode, fixed at construction
    demo_otps,           \* NSDLESignService._demo_otps: transaction_id -> record
    demo_transactions,   \* NSDLESignService._demo_transactions
    digital_signatures,  \* table digital_signatures: signature_id -> row
    files,               \* generated_documents/pdfs: path -> bytes
    certificates,        \* QR payloads of the certificates written so far
    signature_audit_log, \* table signature_audit_log: a bag of rows
    handlers,            \* the calls in flight: a bag of records holding the
                         \* position in the method, the arguments and the locals
    response,            \* the (success, response) most recently returned
    verify_calls,        \* per transaction: calls of the provider's verify_otp
    otp_accepted,        \* transactions whose OTP the provider has accepted
    sign_calls,          \* per transaction: successful provider signings
    signature_workflows, \* table signature_workflows: workflow_id -> row
    signatories,         \* table signatories: signatory_id -> row, NULL once
                         \* the row is deleted (a SERIAL id is not used again)
    notifications,       \* signatory ids NotificationService was asked to mail
    workflow_calls,      \* the workflow calls in flight: a bag of records
    workflow_response,   \* the (success, response) a workflow call returned
    aadhaar_number,      \* the number last given to AadhaarValidator.validate
    validation,          \* what validate returned for it
    certificate_for,     \* the signature id a certificate id was generated for
    certificate_id,      \* the certificate id, a string of characters
    certificate_lookup   \* the signature id get_certificate_by_id looks up

signature_vars ==
    <<now, is_demo_mode, demo_otps, demo_transactions, digital_signatures,
      files, certificates, signature_audit_log, handlers, response,
      verify_calls, otp_accepted, sign_calls>>

workflow_vars ==
    <<signature_workflows, signatories, notifications, workflow_calls,
      workflow_response>>

\* the inputs and results of the calls that read no table
stateless_vars ==
    <<aadhaar_number, validation, certificate_for, certificate_id,
      certificate_lookup>>

vars == <<signature_vars, workflow_vars, stateless_vars>>

(* ---------------------------- AadhaarValidator ------------------------ *)
d_table == <<
    <<0, 1, 2, 3, 4, 5, 6, 7, 8, 9>>,
    <<1, 2, 3, 4, 0, 6, 7, 8, 9, 5>>,
    <<2, 3, 4, 0, 1, 7, 8, 9, 5, 6>>,
    <<3, 4, 0, 1, 2, 8, 9, 5, 6, 7>>,
    <<4, 0, 1, 2, 3, 9, 5, 6, 7, 8>>,
    <<5, 9, 8, 7, 6, 0, 4, 3, 2, 1>>,
    <<6, 5, 9, 8, 7, 1, 0, 4, 3, 2>>,
    <<7, 6, 5, 9, 8, 2, 1, 0, 4, 3>>,
    <<8, 7, 6, 5, 9, 3, 2, 1, 0, 4>>,
    <<9, 8, 7, 6, 5, 4, 3, 2, 1, 0>> >>

p_table == <<
    <<0, 1, 2, 3, 4, 5, 6, 7, 8, 9>>,
    <<1, 5, 7, 6, 2, 8, 3, 0, 9, 4>>,
    <<5, 8, 0, 3, 7, 9, 6, 1, 4, 2>>,
    <<8, 9, 1, 6, 0, 4, 3, 5, 2, 7>>,
    <<9, 4, 5, 3, 1, 2, 6, 8, 7, 0>>,
    <<4, 2, 8, 6, 5, 7, 3, 9, 0, 1>>,
    <<2, 7, 9, 3, 8, 0, 6, 4, 1, 5>>,
    <<7, 0, 4, 6, 9, 1, 3, 2, 5, 8>> >>

\* c = d[c][p[i % 8][digit]] over the digits in reverse order, i from 0
RECURSIVE verhoeff_fold(_, _, _)
verhoeff_fold(number, i, c) ==
    IF i = Len(number) THEN c
    ELSE verhoeff_fold(number, i + 1,
            d_table[c + 1][p_table[(i % 8) + 1][number[Len(number) - i] + 1] + 1])

\* the loop of _verify_verhoeff entered one digit late: the check digit is
\* never read
verify_verhoeff_without_check_digit(number) == verhoeff_fold(number, 1, 0) = 0

verify_verhoeff(number) == verhoeff_fold(number, 0, 0) = 0

\* an Aadhaar number is a sequence of digits (spaces and hyphens removed)
validate(aadhaar) ==
    IF Len(aadhaar) # 12 THEN [ok |-> FALSE, message |-> "must be exactly 12 digits"]
    ELSE IF aadhaar[1] \in {0, 1} THEN [ok |-> FALSE, message |-> "cannot start with 0 or 1"]
    ELSE IF ~verify_verhoeff(aadhaar) THEN [ok |-> FALSE, message |-> "checksum failed"]
    ELSE [ok |-> TRUE, message |-> "Valid Aadhaar number"]

\* what validate returned, together with the number it was called with
validated(number) ==
    [number |-> number, ok |-> validate(number).ok,
     message |-> validate(number).message]

\* validate was not called
NoValidation == [number |-> <<>>, ok |-> FALSE, message |-> "none"]

\* the numbers a caller submits: checksum-valid, checksum-invalid (the spec's
\* example), leading 1, too short
AadhaarInputs == {
    <<2, 3, 4, 5, 6, 7, 8, 9, 0, 1, 2, 4>>,
    <<2, 3, 4, 5, 6, 7, 8, 9, 0, 1, 2, 3>>,
    <<1, 2, 3, 4, 5, 6, 7, 8, 9, 0, 1, 2>>,
    <<2, 3, 4, 5, 6, 7, 8, 9, 0>> }

(* ------------------------------ PDFProcessor -------------------------- *)
\* File contents are numbers.  SHA-256 is modelled as a fixed function that
\* has no collisions on the contents the model can produce (all < 65521).
calculate_hash(bytes) == (bytes * 31 + 7) % 65521

\* hashlib.sha256(aadhaar_number.encode()).hexdigest(), over the digit string
RECURSIVE digits_value(_, _)
digits_value(s, acc) ==
    IF s = <<>> THEN acc ELSE digits_value(Tail(s), (acc * 10 + Head(s)) % 65521)
aadhaar_sha256(aadhaar) == calculate_hash(digits_value(aadhaar, 0))

\* paths under generated_documents/pdfs
pdf_path(document_id) == <<"document", document_id>>
\* document_path.replace('.pdf', '_signed.pdf')
signed_path(document_path) == <<"document_signed", document_path[2]>>

\* the PDF reportlab draws from the document id and content
render_pdf(document_id) == document_id

\* the original pages with the signature box (signer, date) merged on the last
overlay_signature(bytes, signer_name, minute) == 1000 * bytes + 100 * signer_name + minute

(* --------------------------- NSDLESignService ------------------------- *)
\* request_otp: the error it returns, "none" when the OTP was sent.  The demo
\* service always succeeds; the live one may be refused by the provider or
\* fail in transport (requests exception)
request_otp_outcomes ==
    IF is_demo_mode THEN {"none"}
    ELSE {"none", "OTP request failed", "Unable to connect to NSDL e-Sign service"}

\* _demo_request_otp forgetting the OTP it generated
demo_otps_not_stored(transaction_id) == demo_otps

\* the in-memory tables after _demo_request_otp; the live service keeps none
demo_otps_after_request(transaction_id) ==
    IF is_demo_mode
    THEN (transaction_id :> [otp |-> DemoOtp, expires_at |-> now + OtpValidityMinutes])
         @@ demo_otps
    ELSE demo_otps

demo_transactions_after_request(transaction_id, signer_name) ==
    IF is_demo_mode
    THEN (transaction_id :> [signer_name |-> signer_name]) @@ demo_transactions
    ELSE demo_transactions

verify_failure(error) ==
    [success |-> FALSE, error |-> Val(error), signer_name |-> NULL,
     verification_token |-> NULL]

verify_success(signer_name, token) ==
    [success |-> TRUE, error |-> NULL, signer_name |-> Val(signer_name),
     verification_token |-> Val(token)]

demo_verify_otp(transaction_id, otp) ==
    IF transaction_id \notin DOMAIN demo_otps
    THEN verify_failure("Invalid transaction ID")
    ELSE IF now > demo_otps[transaction_id].expires_at
    THEN verify_failure("OTP expired")
    ELSE IF otp = demo_otps[transaction_id].otp
    THEN verify_success(demo_transactions[transaction_id].signer_name, transaction_id)
    ELSE verify_failure("Invalid OTP")

\* the responses verify_otp can return.  Live: the remote service accepts the
\* OTP it sent and rejects another one, and any call may fail in transport
\* (requests exception), which is returned as an ordinary failure.
esign_verify_otp(transaction_id, otp, signer_name) ==
    IF is_demo_mode
    THEN {demo_verify_otp(transaction_id, otp)}
    ELSE {IF otp = DemoOtp THEN verify_success(signer_name, transaction_id)
                           ELSE verify_failure("Invalid OTP"),
          verify_failure("Unable to verify OTP")}

\* the responses apply_signature can return: a signed file or a failure
sign_success(path, signer_name) ==
    [success |-> TRUE, error |-> NULL, signed_document_path |-> Val(path),
     signature_timestamp |-> Val(now), signer_name |-> Val(signer_name)]

sign_failure(error) ==
    [success |-> FALSE, error |-> Val(error), signed_document_path |-> NULL,
     signature_timestamp |-> NULL, signer_name |-> NULL]

NoSignResponse == sign_failure("none")

\* apply_signature of the provider: the error it returns, "none" when it
\* signed.  Demo: an exception while the PDF is written.  Live: the provider
\* refuses, or the call fails in transport (any exception, timeout=60)
sign_outcomes ==
    IF is_demo_mode THEN {"none", "Demo signature failed"}
    ELSE {"none", "Signature application failed", "Unable to apply signature"}

(* ------------------------------ rows ---------------------------------- *)
\* INSERT INTO digital_signatures ... with the column defaults of the table
new_row(document_id, user_id, aadhaar, transaction_id, doc_hash, t, demo) ==
    [document_id |-> document_id,
     user_id |-> user_id,
     aadhaar_number_hash |-> aadhaar_sha256(aadhaar),
     signature_status |-> "otp_sent",
     transaction_id |-> transaction_id,
     document_hash |-> doc_hash,
     otp_request_time |-> Val(t),
     otp_verified_time |-> NULL,
     aadhaar_verified |-> FALSE,
     expires_at |-> t + OtpValidityMinutes,
     is_demo_mode |-> demo,
     signature_metadata |-> [signer_name |-> Val(user_id), verification_token |-> NULL],
     signature_certificate_url |-> NULL,
     signed_document_url |-> NULL,
     signed_document_hash |-> NULL,
     signed_at |-> NULL,
     retry_count |-> 0,
     error_message |-> NULL]

NoRow == new_row(0, 0, <<>>, 0, 0, 0, FALSE)

audit_entry(signature_id, event_type, user_id) ==
    [signature_id |-> signature_id, event_type |-> event_type, user_id |-> user_id]

\* _log_audit: INSERT INTO signature_audit_log, commit
log_audit(signature_id, event_type, user_id) ==
    signature_audit_log (+) SetToBag({audit_entry(signature_id, event_type, user_id)})

\* _generate_transaction_id: a fresh uuid; the n-th row gets transaction n
generate_transaction_id == Len(digital_signatures) + 1

\* _get_or_create_pdf: the file system after the call
get_or_create_pdf(fs, document_id) ==
    IF pdf_path(document_id) \in DOMAIN fs THEN fs
    ELSE (pdf_path(document_id) :> render_pdf(document_id)) @@ fs

(* ----------------------------- handlers ------------------------------- *)
NoResponse == [op |-> "none", signature_id |-> 0, success |-> FALSE, error |-> "none"]

respond(op, signature_id, success, error) ==
    [op |-> op, signature_id |-> signature_id, success |-> success, error |-> error]

\* a call in flight: where it is (pc), its arguments, the row it SELECTed
\* (signature) and what the provider returned to it (sign_response)
handler(pc, op, signature_id, user_id, otp, row, out) ==
    [pc |-> pc, op |-> op, signature_id |-> signature_id, user_id |-> user_id,
     otp |-> otp, signature |-> row, sign_response |-> out]

InFlight == BagToSet(handlers)

\* signature_routes.py opens a connection per request; the model accepts a
\* request while a handler is free and the audit log has room for its entry
CanStartWithin(max_handlers, max_audit) ==
    /\ BagCardinality(handlers) < max_handlers
    /\ BagCardinality(signature_audit_log) + BagCardinality(handlers) < max_audit

CanStart == CanStartWithin(MaxHandlers, MaxAudit)

Begin(h) ==
    /\ handlers' = handlers (+) SetToBag({h})
    /\ response' = NoResponse

Step(h, g) == handlers' = (handlers (-) SetToBag({h})) (+) SetToBag({g})

Return(h, resp) ==
    /\ handlers' = handlers (-) SetToBag({h})
    /\ response' = resp

\* the SELECT without its user_id condition: the row is found whoever asks
select_signature_of_anyone(signature_id, user_id) ==
    IF signature_id \in DOMAIN digital_signatures
    THEN Val(digital_signatures[signature_id])
    ELSE NULL

\* SELECT ... WHERE signature_id = %s AND user_id = %s
select_signature(signature_id, user_id) ==
    IF signature_id \in DOMAIN digital_signatures
       /\ digital_signatures[signature_id].user_id = user_id
    THEN Val(digital_signatures[signature_id])
    ELSE NULL

\* UPDATE digital_signatures SET ... WHERE signature_id = %s, commit
update_row(signature_id, row) ==
    [digital_signatures EXCEPT ![signature_id] = row]

(* --------------------------- certificate ids -------------------------- *)
\* strings are sequences of characters
DigitChars == <<"0", "1", "2", "3", "4", "5", "6", "7", "8", "9">>

\* str(n) for n >= 0
RECURSIVE decimal(_)
decimal(n) ==
    IF n < 10 THEN <<DigitChars[n + 1]>>
    ELSE Append(decimal(n \div 10), DigitChars[(n % 10) + 1])

\* the format specification 0<width>d: zeros on the left up to width
\* characters, all the digits when there are more
RECURSIVE zero_pad(_, _)
zero_pad(s, width) == IF Len(s) >= width THEN s ELSE zero_pad(<<"0">> \o s, width)

\* datetime.now().strftime('%Y%m%d%H%M%S'), 14 characters; minute 0 of the
\* clock is 2025-01-08 12:00:00
strftime(minute) ==
    <<"2", "0", "2", "5", "0", "1", "0", "8">>
    \o zero_pad(decimal(12 + (minute \div 60)), 2)
    \o zero_pad(decimal(minute % 60), 2)
    \o <<"0", "0">>

\* {signature_id:06d}
CertificateIdWidth == 6

\* CertificateGenerator._generate_certificate_id:
\* f"CERT{timestamp}{signature_id:06d}"
generate_certificate_id(signature_id) ==
    <<"C", "E", "R", "T">> \o strftime(now)
    \o zero_pad(decimal(signature_id), CertificateIdWidth)

\* int(s) of a string of digits
RECURSIVE int(_, _)
int(s, acc) ==
    IF s = <<>> THEN acc
    ELSE int(Tail(s),
             acc * 10 + (CHOOSE d \in 0..9 : DigitChars[d + 1] = Head(s)))

\* certificate_id[20:] and len(certificate_id) >= 20
SignatureIdOffset == 20

\* SignatureManager.get_certificate_by_id, lines 1008-1010: the signature id
\* the SELECT is made with; None when the id has another form or int() raises
parse_certificate_id(cert) ==
    IF Len(cert) >= SignatureIdOffset /\ SubSeq(cert, 1, 4) = <<"C", "E", "R", "T">>
    THEN LET signature_id_str == SubSeq(cert, SignatureIdOffset + 1, Len(cert))
         IN  IF signature_id_str = <<>> THEN NULL
             ELSE Val(int(signature_id_str, 0))
    ELSE NULL

\* no get_certificate_by_id call was made
NoLookup == [called |-> FALSE, signature_id |-> NULL]

Init ==
    /\ now = 0
    /\ is_demo_mode \in BOOLEAN
    /\ demo_otps = <<>>
    /\ demo_transactions = <<>>
    /\ digital_signatures = <<>>
    /\ files = <<>>
    /\ certificates = {}
    /\ signature_audit_log = EmptyBag
    /\ handlers = EmptyBag
    /\ response = NoResponse
    /\ verify_calls = <<>>
    /\ otp_accepted = {}
    /\ sign_calls = <<>>
    /\ signature_workflows = <<>>
    /\ signatories = <<>>
    /\ notifications = {}
    /\ workflow_calls = EmptyBag
    /\ workflow_response = NoResponse
    /\ aadhaar_number = <<>>
    /\ validation = NoValidation
    /\ certificate_for = 0
    /\ certificate_id = <<>>
    /\ certificate_lookup = NoLookup

\* time passes
Tick ==
    /\ now + TickMinutes <= MaxTime
    /\ now' = now + TickMinutes
    /\ UNCHANGED <<is_demo_mode, demo_otps, demo_transactions, digital_signatures,
                   files, certificates, signature_audit_log, handlers, response,
                   verify_calls, otp_accepted, sign_calls>>
    /\ UNCHANGED workflow_vars
    /\ UNCHANGED stateless_vars

\* user ids and document ids are interchangeable: a signer or a document
\* not seen before is the next unused id
KnownUsers == {digital_signatures[i].user_id : i \in DOMAIN digital_signatures}
KnownDocs == {d \in Docs : pdf_path(d) \in DOMAIN files}
FreshOrKnown(document_id, user_id) ==
    /\ \A u \in Users : u < user_id => u \in KnownUsers
    /\ \A d \in Docs : d < document_id => d \in KnownDocs

\* SignatureManager.initiate_signature, while the table has fewer than
\* max_rows rows and the handlers and the audit log have room
initiate_signature_within(max_rows, max_handlers, max_audit, document_id, user_id, aadhaar) ==
    /\ Len(digital_signatures) < max_rows
    /\ CanStartWithin(max_handlers, max_audit)
    /\ FreshOrKnown(document_id, user_id)
    /\ IF ~validate(aadhaar).ok
       THEN /\ response' = respond("initiate_signature", 0, FALSE,
                                   validate(aadhaar).message)
            /\ UNCHANGED <<files, demo_otps, demo_transactions, digital_signatures,
                           sign_calls, verify_calls, signature_audit_log>>
       ELSE IF document_id \notin Docs
       THEN /\ response' = respond("initiate_signature", 0, FALSE,
                                   "Document not found")
            /\ UNCHANGED <<files, demo_otps, demo_transactions, digital_signatures,
                           sign_calls, verify_calls, signature_audit_log>>
       ELSE \E otp_error \in request_otp_outcomes :
            LET transaction_id == generate_transaction_id
                fs == get_or_create_pdf(files, document_id)
                doc_hash == calculate_hash(fs[pdf_path(document_id)])
            IN  /\ files' = fs
                /\ IF otp_error = "none"
                   THEN /\ demo_otps' = demo_otps_after_request(transaction_id)
                        /\ demo_transactions' =
                               demo_transactions_after_request(transaction_id, user_id)
                        /\ digital_signatures' =
                               Append(digital_signatures,
                                      new_row(document_id, user_id, aadhaar,
                                              transaction_id, doc_hash, now,
                                              is_demo_mode))
                        /\ sign_calls' = Append(sign_calls, 0)
                        /\ verify_calls' = Append(verify_calls, 0)
                        /\ signature_audit_log' =
                               log_audit(Len(digital_signatures) + 1, "otp_requested", user_id)
                        /\ response' = respond("initiate_signature",
                                               Len(digital_signatures) + 1, TRUE, "none")
                   ELSE /\ response' = respond("initiate_signature", 0, FALSE, otp_error)
                        /\ UNCHANGED <<demo_otps, demo_transactions, digital_signatures,
                                       sign_calls, verify_calls, signature_audit_log>>
    /\ UNCHANGED <<now, is_demo_mode, certificates, handlers, otp_accepted>>
    /\ UNCHANGED workflow_vars
    /\ UNCHANGED stateless_vars

\* SignatureManager.initiate_signature
initiate_signature(document_id, user_id, aadhaar) ==
    initiate_signature_within(MaxSigs, MaxHandlers, MaxAudit,
                              document_id, user_id, aadhaar)

\* SignatureManager.verify_otp, lines 186-203: the SELECT and the checks that
\* read nothing but the selected row
verify_otp_select_within(max_handlers, max_audit, signature_id, otp, user_id) ==
    /\ CanStartWithin(max_handlers, max_audit)
    /\ LET found == select_signature(signature_id, user_id)
       IN  IF found = NULL
           THEN /\ response' = respond("verify_otp", signature_id, FALSE,
                                       "Signature request not found")
                /\ UNCHANGED handlers
           ELSE IF found[1].signature_status = "verified"
           THEN /\ response' = respond("verify_otp", signature_id, FALSE,
                                       "OTP already verified")
                /\ UNCHANGED handlers
           ELSE Begin(handler("verify_otp", "verify_otp", signature_id, user_id, otp,
                              found[1], NoSignResponse))
    /\ UNCHANGED <<now, is_demo_mode, demo_otps, demo_transactions, digital_signatures,
                   files, certificates, signature_audit_log, verify_calls,
                   otp_accepted, sign_calls>>
    /\ UNCHANGED workflow_vars
    /\ UNCHANGED stateless_vars

verify_otp_select(signature_id, otp, user_id) ==
    verify_otp_select_within(MaxHandlers, MaxAudit, signature_id, otp, user_id)

\* the row after a verification the provider accepted (lines 227-238)
row_verified(row, verify_response) ==
    [row EXCEPT !.signature_status = "verified",
                !.aadhaar_verified = TRUE,
                !.otp_verified_time = Val(now),
                !.signature_metadata =
                    [signer_name |-> verify_response.signer_name,
                     verification_token |-> verify_response.verification_token]]

\* the row after a verification the provider refused (lines 260-265)
row_retry(row, verify_response) ==
    [row EXCEPT !.retry_count = row.retry_count + 1,
                !.error_message = verify_response.error]

\* an off-by-one limit: a fourth attempt reaches the provider
retry_limit_reached_late(retry_count) == retry_count > MaxOtpRetries

\* if signature['retry_count'] >= 3
retry_limit_reached(retry_count) == retry_count >= MaxOtpRetries

\* the expiry check left out: the provider is asked about an expired OTP
otp_expiry_unchecked(expires_at) == FALSE

\* if datetime.now() > signature['expires_at']
otp_expired(expires_at) == now > expires_at

\* SignatureManager.verify_otp, lines 205-277: expiry, retry limit, the call
\* to the provider and the UPDATE of the row as it is now in the table
verify_otp_complete(h) ==
    /\ h.pc = "verify_otp"
    /\ LET id == h.signature_id
           seen == h.signature
           row == digital_signatures[id]
       IN  IF otp_expired(seen.expires_at)
           THEN /\ digital_signatures' =
                       update_row(id, [row EXCEPT !.signature_status = "expired"])
                /\ Return(h, respond("verify_otp", id, FALSE, "OTP expired"))
                /\ UNCHANGED <<signature_audit_log, verify_calls, otp_accepted>>
           ELSE IF retry_limit_reached(seen.retry_count)
           THEN /\ Return(h, respond("verify_otp", id, FALSE,
                                     "Maximum OTP retry attempts exceeded"))
                /\ UNCHANGED <<digital_signatures, signature_audit_log, verify_calls,
                               otp_accepted>>
           ELSE \E verify_response \in
                       esign_verify_otp(seen.transaction_id, h.otp, seen.user_id) :
                /\ verify_calls' = [verify_calls EXCEPT ![seen.transaction_id] = @ + 1]
                /\ IF verify_response.success
                   THEN /\ digital_signatures' =
                               update_row(id, row_verified(row, verify_response))
                        /\ otp_accepted' = otp_accepted \union {seen.transaction_id}
                        /\ signature_audit_log' =
                               log_audit(id, "otp_verified", h.user_id)
                        /\ Return(h, respond("verify_otp", id, TRUE, "none"))
                   ELSE /\ digital_signatures' =
                               update_row(id, row_retry(row, verify_response))
                        /\ signature_audit_log' =
                               log_audit(id, "otp_verification_failed", h.user_id)
                        /\ Return(h, respond("verify_otp", id, FALSE,
                                             verify_response.error[1]))
                        /\ UNCHANGED otp_accepted
    /\ UNCHANGED <<now, is_demo_mode, demo_otps, demo_transactions, files,
                   certificates, sign_calls>>
    /\ UNCHANGED workflow_vars
    /\ UNCHANGED stateless_vars

\* the status check left out: any request may be signed
otp_is_verified_unchecked(signature_status) == TRUE

\* if signature['signature_status'] != 'verified': return 'OTP not verified'
otp_is_verified(signature_status) == signature_status = "verified"

\* SignatureManager.apply_signature, lines 303-322: the SELECT and the check
\* of the selected status
apply_signature_select_within(max_handlers, max_audit, signature_id, user_id) ==
    /\ CanStartWithin(max_handlers, max_audit)
    /\ LET found == select_signature(signature_id, user_id)
       IN  IF found = NULL
           THEN /\ response' = respond("apply_signature", signature_id, FALSE,
                                       "Signature request not found")
                /\ UNCHANGED handlers
           ELSE IF ~otp_is_verified(found[1].signature_status)
           THEN /\ response' = respond("apply_signature", signature_id, FALSE,
                                       "OTP not verified")
                /\ UNCHANGED handlers
           ELSE Begin(handler("apply_signature", "apply_signature", signature_id,
                              user_id, "none", found[1], NoSignResponse))
    /\ UNCHANGED <<now, is_demo_mode, demo_otps, demo_transactions, digital_signatures,
                   files, certificates, signature_audit_log, verify_calls,
                   otp_accepted, sign_calls>>
    /\ UNCHANGED workflow_vars
    /\ UNCHANGED stateless_vars

apply_signature_select(signature_id, user_id) ==
    apply_signature_select_within(MaxHandlers, MaxAudit, signature_id, user_id)

\* the signer the provider prints on the document: the demo service looks the
\* transaction up (0 stands for 'Demo Signer'), the live one holds the name
\* given at request_otp
provider_signer_name(seen) ==
    IF is_demo_mode
    THEN IF seen.transaction_id \in DOMAIN demo_transactions
         THEN demo_transactions[seen.transaction_id].signer_name ELSE 0
    ELSE seen.user_id

\* SignatureManager.apply_signature, lines 324-339: the provider signs the PDF
\* and writes <document>_signed.pdf, or fails
apply_signature_provider(h) ==
    /\ h.pc = "apply_signature"
    /\ LET seen == h.signature
           fs == get_or_create_pdf(files, seen.document_id)
           document_path == pdf_path(seen.document_id)
           signed_doc_path == signed_path(document_path)
           signer_name == provider_signer_name(seen)
       IN  \E sign_error \in sign_outcomes :
           IF sign_error = "none"
           THEN /\ files' = (signed_doc_path :>
                                overlay_signature(fs[document_path], signer_name, now))
                            @@ fs
                /\ sign_calls' = [sign_calls EXCEPT ![seen.transaction_id] = @ + 1]
                /\ Step(h, [h EXCEPT !.pc = "apply_write",
                                     !.sign_response =
                                         sign_success(signed_doc_path, signer_name)])
           ELSE /\ files' = fs
                /\ Step(h, [h EXCEPT !.pc = "apply_write",
                                     !.sign_response =
                                         sign_failure(sign_error)])
                /\ UNCHANGED sign_calls
    /\ UNCHANGED <<now, is_demo_mode, demo_otps, demo_transactions, digital_signatures,
                   certificates, signature_audit_log, response, verify_calls,
                   otp_accepted>>
    /\ UNCHANGED workflow_vars
    /\ UNCHANGED stateless_vars

(* ------------------------- CertificateGenerator ----------------------- *)
\* CertificateGenerator._create_qr_data over the row that
\* SignatureManager.generate_certificate selected
create_qr_data(row, signature_id, cert_id) ==
    [certificate_id |-> cert_id,
     signature_id |-> signature_id,
     transaction_id |-> row.transaction_id,
     document_id |-> row.document_id,
     document_hash |-> row.document_hash,
     signer_name |-> row.signature_metadata.signer_name,
     signed_at |-> row.signed_at]

\* CertificateGenerator.verify_certificate
verify_certificate(cert_data, uploaded_doc_hash) ==
    IF cert_data.document_hash = uploaded_doc_hash
    THEN [valid |-> TRUE, message |-> "Document signature verified successfully"]
    ELSE [valid |-> FALSE, message |-> "Document has been modified after signing"]

\* SignatureManager.verify_signed_document when certificate_data is given:
\* hash the uploaded bytes and compare with the certificate; reads only
verify_signed_document(bytes, certificate_data) ==
    verify_certificate(certificate_data, calculate_hash(bytes))

\* the columns of digital_signatures (create_signature_tables.py)
digital_signatures_columns ==
    {"signature_id", "document_id", "user_id", "aadhaar_number_hash",
     "signature_status", "transaction_id", "esign_request_id",
     "esign_response_data", "otp_request_time", "otp_verified_time",
     "aadhaar_verified", "signature_certificate_url", "signed_document_url",
     "signature_metadata", "document_hash", "signed_document_hash",
     "ip_address", "device_info", "created_at", "signed_at", "expires_at",
     "retry_count", "error_message", "is_demo_mode"}

\* the ds.* columns the lookup of verify_signed_document SELECTs
lookup_columns ==
    {"signature_id", "transaction_id", "document_hash", "signed_at",
     "signature_certificate_url", "esign_request_id", "signer_name"}

\* WHERE ds.document_hash = %s AND ds.signature_status = 'signed'
lookup_matches(doc_hash) ==
    {i \in DOMAIN digital_signatures :
        /\ digital_signatures[i].document_hash = doc_hash
        /\ digital_signatures[i].signature_status = "signed"}

\* SignatureManager.verify_signed_document without certificate_data: the
\* database lookup; a SELECT of a column the table does not have raises, and
\* the except branch returns (False, {'error': ...}) with no 'valid'
verify_signed_document_lookup(bytes) ==
    LET doc_hash == calculate_hash(bytes)
        found == lookup_matches(doc_hash)
    IN  IF ~(lookup_columns \subseteq digital_signatures_columns)
        THEN [success |-> FALSE, valid |-> FALSE, signature_id |-> 0,
              message |-> "error"]
        ELSE IF found # {}
        THEN [success |-> TRUE, valid |-> TRUE,
              signature_id |->
                  CHOOSE i \in found : \A j \in found :
                      digital_signatures[j].signed_at[1] <=
                          digital_signatures[i].signed_at[1],
              message |-> "Document signature verified from database"]
        ELSE [success |-> TRUE, valid |-> FALSE, signature_id |-> 0,
              message |-> "No signature found for this document"]

\* the row after the provider signed (lines 348-364)
row_signed(row, signed_doc_path, signed_doc_hash) ==
    [row EXCEPT !.signature_status = "signed",
                !.signed_document_url = signed_doc_path,
                !.signed_document_hash = Val(signed_doc_hash),
                !.signature_certificate_url = NULL,
                !.signed_at = Val(now)]

\* the row after the provider failed (lines 397-402)
row_failed(row, error) ==
    [row EXCEPT !.signature_status = "failed", !.error_message = error]

\* a failure of the certificate undoing the signature
certificate_failed_rolls_back(row, signed_row) == row

\* the row when generate_certificate fails (lines 376-383, 1113-1117): the
\* signature was committed before, the failure is logged and nothing is undone
certificate_failed(row, signed_row) == signed_row

\* SignatureManager.apply_signature, lines 341-414: hash of the signed file as
\* it is on disk now, UPDATE, audit entry, then generate_certificate, whose
\* failure is only logged
apply_signature_write(h) ==
    /\ h.pc = "apply_write"
    /\ LET id == h.signature_id
           row == digital_signatures[id]
           out == h.sign_response
       IN  IF out.success
           THEN LET signed_row == row_signed(row, out.signed_document_path,
                                     calculate_hash(files[out.signed_document_path[1]]))
                    cert_id == generate_certificate_id(id)
                IN  /\ \E certificate_written \in BOOLEAN :
                       IF certificate_written
                       THEN /\ certificates' = certificates \union
                                   {create_qr_data(signed_row, id, cert_id)}
                            /\ digital_signatures' = update_row(id,
                                   [signed_row EXCEPT
                                       !.signature_certificate_url = Val(cert_id)])
                       ELSE /\ certificates' = certificates
                            /\ digital_signatures' =
                                   update_row(id, certificate_failed(row, signed_row))
                    /\ signature_audit_log' = log_audit(id, "document_signed", h.user_id)
                    /\ Return(h, respond("apply_signature", id, TRUE, "none"))
           ELSE /\ digital_signatures' = update_row(id, row_failed(row, out.error))
                /\ signature_audit_log' = log_audit(id, "signature_failed", h.user_id)
                /\ Return(h, respond("apply_signature", id, FALSE, out.error[1]))
                /\ UNCHANGED certificates
    /\ UNCHANGED <<now, is_demo_mode, demo_otps, demo_transactions, files,
                   verify_calls, otp_accepted, sign_calls>>
    /\ UNCHANGED workflow_vars
    /\ UNCHANGED stateless_vars

(* ------------------------------ workflows ----------------------------- *)
WorkflowIds == 1..MaxWorkflows
SignatoryIds == 1..MaxSignatories
\* the e-mail addresses a caller may name for a signatory
Emails == {"a@example.com", "b@example.com"}
\* the "signatories" lists a caller may post: none, one, two, the same twice
SignatoryLists ==
    {<<>>, <<"a@example.com">>, <<"a@example.com", "b@example.com">>,
     <<"a@example.com", "a@example.com">>}
SigningOrders == {"parallel", "sequential"}

\* INSERT INTO signature_workflows (...) VALUES (%s, %s, 'active', %s, %s, %s);
\* signed_count is the column default 0
new_workflow(document_id, user_id, total, signing_order) ==
    [document_id |-> document_id, created_by |-> user_id,
     workflow_status |-> "active", total_signatories |-> total,
     signed_count |-> 0, signing_order |-> signing_order]

\* INSERT INTO signatories (...) VALUES (..., %s, 'pending'); signature_id and
\* invitation_sent_at and last_reminder_at are left NULL
new_signatory(workflow_id, email, order) ==
    [workflow_id |-> workflow_id, email |-> email, signing_order |-> order,
     status |-> "pending", signature_id |-> NULL, invitation_sent_at |-> NULL,
     last_reminder_at |-> NULL]

\* the rows of signatories of one workflow
signatories_of(workflow_id) ==
    {i \in DOMAIN signatories :
        signatories[i] # NULL /\ signatories[i][1].workflow_id = workflow_id}

\* UNIQUE(workflow_id, email)
email_taken(workflow_id, email) ==
    \E i \in signatories_of(workflow_id) : signatories[i][1].email = email

\* SELECT COALESCE(MAX(signing_order), 0) FROM signatories WHERE workflow_id = %s
RECURSIVE max_order_of(_)
max_order_of(ids) ==
    IF ids = {} THEN 0
    ELSE LET i == CHOOSE j \in ids : TRUE
             rest == max_order_of(ids \ {i})
         IN  IF signatories[i][1].signing_order > rest
             THEN signatories[i][1].signing_order ELSE rest

\* what a workflow call returned; signatory_id is kept for the calls on one
\* signatory whose answer depends on it (send_signature_request), 0 otherwise
workflow_respond(op, signatory_id, success, error) ==
    [op |-> op, signature_id |-> signatory_id, success |-> success, error |-> error]

workflow_call(op, workflow_id, signatory_id, email, max_order) ==
    [op |-> op, workflow_id |-> workflow_id, signatory_id |-> signatory_id,
     email |-> email, max_order |-> max_order]

CanStartWorkflowCall == BagCardinality(workflow_calls) < MaxHandlers

\* the rows create_workflow inserts for a list of signatories, order idx + 1
RECURSIVE insert_signatories(_, _, _, _)
insert_signatories(rows, workflow_id, list, idx) ==
    IF idx > Len(list) THEN rows
    ELSE insert_signatories(
             Append(rows, Val(new_signatory(workflow_id, list[idx], idx))),
             workflow_id, list, idx + 1)

\* route /workflow/create and SignatureManager.create_workflow: one
\* transaction; an INSERT that breaks UNIQUE(workflow_id, email) rolls back;
\* while the signatory ids stay within max_signatories
create_workflow_within(max_signatories, document_id, user_id, list, signing_order) ==
    /\ Len(signature_workflows) < MaxWorkflows
    /\ Len(signatories) + Len(list) <= max_signatories
    /\ IF document_id = 0
       THEN /\ workflow_response' =
                   workflow_respond("create_workflow", 0, FALSE, "document_id is required")
            /\ UNCHANGED <<signature_workflows, signatories>>
       ELSE IF Len(list) = 0
       THEN /\ workflow_response' =
                   workflow_respond("create_workflow", 0, FALSE,
                                    "At least one signatory is required")
            /\ UNCHANGED <<signature_workflows, signatories>>
       ELSE IF \E i, j \in DOMAIN list : i # j /\ list[i] = list[j]
       THEN /\ workflow_response' =
                   workflow_respond("create_workflow", 0, FALSE, "duplicate key")
            /\ UNCHANGED <<signature_workflows, signatories>>
       ELSE /\ signature_workflows' =
                   Append(signature_workflows,
                          new_workflow(document_id, user_id, Len(list), signing_order))
            /\ signatories' =
                   insert_signatories(signatories, Len(signature_workflows) + 1, list, 1)
            /\ workflow_response' = workflow_respond("create_workflow", 0, TRUE, "none")
    /\ UNCHANGED <<notifications, workflow_calls>>
    /\ UNCHANGED signature_vars
    /\ UNCHANGED stateless_vars

create_workflow(document_id, user_id, list, signing_order) ==
    create_workflow_within(MaxSignatories, document_id, user_id, list, signing_order)

\* SignatureManager.add_signatory, lines 584-593: SELECT the current maximum;
\* while the signatory ids stay within max_signatories
add_signatory_select_within(max_signatories, workflow_id, email) ==
    /\ CanStartWorkflowCall
    /\ Len(signatories) + BagCardinality(workflow_calls) < max_signatories
    /\ workflow_calls' = workflow_calls (+)
           SetToBag({workflow_call("add_signatory", workflow_id, 0, email,
                                   max_order_of(signatories_of(workflow_id)))})
    /\ workflow_response' = NoResponse
    /\ UNCHANGED <<signature_workflows, signatories, notifications>>
    /\ UNCHANGED signature_vars
    /\ UNCHANGED stateless_vars

add_signatory_select(workflow_id, email) ==
    add_signatory_select_within(MaxSignatories, workflow_id, email)

\* SignatureManager.add_signatory, lines 595-629: INSERT the signatory with
\* order max_order + 1, add one to total_signatories, commit; a foreign key
\* or UNIQUE violation rolls back
add_signatory_insert(h) ==
    /\ h.op = "add_signatory"
    /\ workflow_calls' = workflow_calls (-) SetToBag({h})
    /\ IF h.workflow_id \notin DOMAIN signature_workflows
       THEN /\ workflow_response' =
                   workflow_respond("add_signatory", 0, FALSE, "foreign key violation")
            /\ UNCHANGED <<signature_workflows, signatories>>
       ELSE IF email_taken(h.workflow_id, h.email)
       THEN /\ workflow_response' =
                   workflow_respond("add_signatory", 0, FALSE, "duplicate key")
            /\ UNCHANGED <<signature_workflows, signatories>>
       ELSE /\ signatories' =
                   Append(signatories,
                          Val(new_signatory(h.workflow_id, h.email, h.max_order + 1)))
            /\ signature_workflows' =
                   [signature_workflows EXCEPT
                       ![h.workflow_id].total_signatories = @ + 1]
            /\ workflow_response' = workflow_respond("add_signatory", 0, TRUE, "none")
    /\ UNCHANGED notifications
    /\ UNCHANGED signature_vars
    /\ UNCHANGED stateless_vars

\* SignatureManager.remove_signatory, lines 649-660: SELECT the status
remove_signatory_select(workflow_id, signatory_id) ==
    /\ CanStartWorkflowCall
    /\ IF signatory_id \notin signatories_of(workflow_id)
       THEN /\ workflow_response' =
                   workflow_respond("remove_signatory", 0, FALSE, "Signatory not found")
            /\ UNCHANGED workflow_calls
       ELSE IF signatories[signatory_id][1].status = "signed"
       THEN /\ workflow_response' =
                   workflow_respond("remove_signatory", 0, FALSE,
                       "Cannot remove signatory who has already signed")
            /\ UNCHANGED workflow_calls
       ELSE /\ workflow_calls' = workflow_calls (+)
                   SetToBag({workflow_call("remove_signatory", workflow_id,
                                           signatory_id, "none", 0)})
            /\ workflow_response' = NoResponse
    /\ UNCHANGED <<signature_workflows, signatories, notifications>>
    /\ UNCHANGED signature_vars
    /\ UNCHANGED stateless_vars

\* SignatureManager.remove_signatory, lines 662-679: DELETE the row (no row
\* is deleted when it is already gone), take one from total_signatories, commit
remove_signatory_delete(h) ==
    /\ h.op = "remove_signatory"
    /\ workflow_calls' = workflow_calls (-) SetToBag({h})
    /\ signatories' =
           IF h.signatory_id \in signatories_of(h.workflow_id)
           THEN [signatories EXCEPT ![h.signatory_id] = NULL]
           ELSE signatories
    /\ signature_workflows' =
           [signature_workflows EXCEPT ![h.workflow_id].total_signatories = @ - 1]
    /\ workflow_response' = workflow_respond("remove_signatory", 0, TRUE, "none")
    /\ UNCHANGED notifications
    /\ UNCHANGED signature_vars
    /\ UNCHANGED stateless_vars

\* the columns of user_documents (auth_database.py)
user_documents_columns ==
    {"doc_id", "user_id", "form_id", "form_name", "content", "created_at",
     "updated_at"}

\* the d.* columns the SELECT of send_signature_request names
request_document_columns == {"doc_name"}

\* the methods of NotificationService (notification_service.py)
notification_service_methods ==
    {"send_signature_invitation", "send_signature_completed",
     "send_workflow_complete", "send_otp_notification", "send_reminder"}

\* does the SELECT of send_signature_request run against the schema
request_query_runs == request_document_columns \subseteq user_documents_columns

\* does notification_service.send_signature_request(...) resolve
request_notification_runs == "send_signature_request" \in notification_service_methods

\* SignatureManager.send_signature_request: SELECT the signatory joined with
\* its workflow and document, call the notification service, UPDATE the
\* signatory to 'notified', commit; any exception rolls back and is returned
\* as (False, {'error': str(e)})
send_signature_request(workflow_id, signatory_id) ==
    /\ IF ~request_query_runs
       THEN /\ workflow_response' =
                   workflow_respond("send_signature_request", signatory_id, FALSE,
                                    "column d.doc_name does not exist")
            /\ UNCHANGED <<signatories, notifications>>
       ELSE IF signatory_id \notin signatories_of(workflow_id)
       THEN /\ workflow_response' =
                   workflow_respond("send_signature_request", signatory_id, FALSE,
                                    "Signatory not found")
            /\ UNCHANGED <<signatories, notifications>>
       ELSE IF ~request_notification_runs
       THEN /\ workflow_response' =
                   workflow_respond("send_signature_request", signatory_id, FALSE,
                                    "object has no attribute send_signature_request")
            /\ UNCHANGED <<signatories, notifications>>
       ELSE /\ notifications' = notifications \union {signatory_id}
            /\ signatories' =
                   [signatories EXCEPT ![signatory_id] =
                       Val([@[1] EXCEPT !.status = "notified",
                                        !.invitation_sent_at = Val(now)])]
            /\ workflow_response' =
                   workflow_respond("send_signature_request", signatory_id, TRUE, "none")
    /\ UNCHANGED <<signature_workflows, workflow_calls>>
    /\ UNCHANGED signature_vars
    /\ UNCHANGED stateless_vars

\* INTERVAL '24 hours', in minutes
ReminderCooldownMinutes == 1440

\* the d.* columns the SELECT of send_reminders names
reminder_document_columns == {"doc_name"}

\* does the SELECT of send_reminders run against the schema
reminder_query_runs == reminder_document_columns \subseteq user_documents_columns

\* the parameters of NotificationService.send_reminder, all without default
send_reminder_parameters ==
    {"recipient_email", "recipient_name", "document_name", "invitation_link",
     "days_remaining"}

\* the keyword arguments send_reminders calls it with
send_reminder_keywords == {"email", "name", "document_name", "workflow_id"}

\* does the call bind: every keyword is a parameter and no parameter is missing
send_reminder_binds == send_reminder_keywords = send_reminder_parameters

\* WHERE s.workflow_id = %s AND s.status IN ('notified', 'viewed') AND
\* (s.last_reminder_at IS NULL OR s.last_reminder_at < CURRENT_TIMESTAMP - 24 h)
reminders_due(workflow_id) ==
    {i \in signatories_of(workflow_id) :
        /\ signatories[i][1].status \in {"notified", "viewed"}
        /\ \/ signatories[i][1].last_reminder_at = NULL
           \/ signatories[i][1].last_reminder_at[1] < now - ReminderCooldownMinutes}

\* what send_reminders returned
reminders_respond(workflow_id, success, error, reminded_count) ==
    [op |-> "send_reminders", signature_id |-> 0, success |-> success,
     error |-> error, workflow_id |-> workflow_id,
     reminded_count |-> reminded_count]

\* SignatureManager.send_reminders: SELECT the signatories that are due, call
\* the notification service for each and stamp last_reminder_at (a call that
\* raises is logged and the signatory skipped), commit, return the count; an
\* exception of the SELECT rolls back and is returned as (False, {'error': ...})
send_reminders(workflow_id) ==
    /\ IF ~reminder_query_runs
       THEN /\ workflow_response' =
                   reminders_respond(workflow_id, FALSE,
                                     "column d.doc_name does not exist", 0)
            /\ UNCHANGED signatories
       ELSE LET reminded == IF send_reminder_binds
                            THEN reminders_due(workflow_id) ELSE {}
            IN  /\ signatories' =
                       [i \in DOMAIN signatories |->
                           IF i \in reminded
                           THEN Val([signatories[i][1] EXCEPT
                                        !.last_reminder_at = Val(now)])
                           ELSE signatories[i]]
                /\ workflow_response' =
                       reminders_respond(workflow_id, TRUE, "none",
                                         Cardinality(reminded))
    /\ UNCHANGED <<signature_workflows, notifications, workflow_calls>>
    /\ UNCHANGED signature_vars
    /\ UNCHANGED stateless_vars

WorkflowCallsInFlight == BagToSet(workflow_calls)

\* the workflow routes, together with the signing of the workflow's document
\* by its signer: initiate, the OTP that was sent, apply
WorkflowNext ==
    \/ \E document_id \in DocInputs, list \in SignatoryLists,
          signing_order \in SigningOrders :
           create_workflow(document_id, 1, list, signing_order)
    \/ \E workflow_id \in WorkflowIds, email \in Emails :
           add_signatory_select(workflow_id, email)
    \/ \E h \in WorkflowCallsInFlight : add_signatory_insert(h)
    \/ \E workflow_id \in WorkflowIds, signatory_id \in SignatoryIds :
           remove_signatory_select(workflow_id, signatory_id)
    \/ \E h \in WorkflowCallsInFlight : remove_signatory_delete(h)
    \/ \E workflow_id \in WorkflowIds, signatory_id \in SignatoryIds :
           send_signature_request(workflow_id, signatory_id)
    \/ \E workflow_id \in WorkflowIds : send_reminders(workflow_id)
    \/ initiate_signature(1, 1, <<2, 3, 4, 5, 6, 7, 8, 9, 0, 1, 2, 4>>)
    \/ verify_otp_select(1, DemoOtp, 1)
    \/ \E h \in InFlight : verify_otp_complete(h)
    \/ apply_signature_select(1, 1)
    \/ \E h \in InFlight : apply_signature_provider(h)
    \/ \E h \in InFlight : apply_signature_write(h)

WorkflowSpec == Init /\ [][WorkflowNext]_vars

(* -------------------- certificate ids, end to end --------------------- *)
\* the largest of the consecutive signature ids a certificate is made for
MaxCertificateId == 20
\* the signature ids: the first rows of a table and ids of more digits
CertificateSignatureIds ==
    (1..MaxCertificateId) \union {42, 9999, 10000, 10042, 123456, 1234567}

\* CertificateGenerator.generate_certificate, line 53: the id of the
\* certificate of a signed request
generate_certificate(signature_id) ==
    /\ certificate_for' = signature_id
    /\ certificate_id' = generate_certificate_id(signature_id)
    /\ certificate_lookup' = NoLookup
    /\ UNCHANGED <<aadhaar_number, validation>>
    /\ UNCHANGED signature_vars
    /\ UNCHANGED workflow_vars

\* route /certificate/<certificate_id> and SignatureManager.get_certificate_by_id
\* on the id that was generated
get_certificate_by_id ==
    /\ certificate_id # <<>>
    /\ ~certificate_lookup.called
    /\ certificate_lookup' =
           [called |-> TRUE, signature_id |-> parse_certificate_id(certificate_id)]
    /\ UNCHANGED <<aadhaar_number, validation, certificate_for, certificate_id>>
    /\ UNCHANGED signature_vars
    /\ UNCHANGED workflow_vars

(* ------------------- AadhaarValidator, end to end --------------------- *)
\* how many of the last digits of a submitted number range over all digits
VariedDigits == 2
\* the numbers the leading digits are taken from
ValidatorBases ==
    {<<2, 3, 4, 5, 6, 7, 8, 9, 0, 1, 2, 4>>, <<9, 8, 7, 6, 5, 4, 3, 2, 1, 0, 9, 8>>}
\* the 12-digit numbers a caller submits
ValidatorInputs ==
    {SubSeq(base, 1, 12 - VariedDigits) \o tail :
        base \in ValidatorBases, tail \in [1..VariedDigits -> 0..9]}

\* AadhaarValidator.validate on a submitted number (the first call)
validate_number(aadhaar) ==
    /\ aadhaar_number' = aadhaar
    /\ validation' = validated(aadhaar)
    /\ UNCHANGED <<certificate_for, certificate_id, certificate_lookup>>
    /\ UNCHANGED signature_vars
    /\ UNCHANGED workflow_vars

\* AadhaarValidator.validate on the submitted number with the digit at one
\* position replaced by another digit
validate_mutation(position, digit) ==
    /\ aadhaar_number # <<>>
    /\ validation.number = aadhaar_number
    /\ digit # aadhaar_number[position]
    /\ validation' = validated([aadhaar_number EXCEPT ![position] = digit])
    /\ UNCHANGED <<aadhaar_number, certificate_for, certificate_id,
                   certificate_lookup>>
    /\ UNCHANGED signature_vars
    /\ UNCHANGED workflow_vars

ValidatorNext ==
    \/ /\ aadhaar_number = <<>>
       /\ \E aadhaar \in ValidatorInputs : validate_number(aadhaar)
    \/ \E position \in 1..12, digit \in 0..9 : validate_mutation(position, digit)

ValidatorSpec == Init /\ [][ValidatorNext]_vars

CertificateNext ==
    \/ Tick
    \/ \E signature_id \in CertificateSignatureIds : generate_certificate(signature_id)
    \/ get_certificate_by_id

CertificateSpec == Init /\ [][CertificateNext]_vars

(* ---------------- two requests for one document, in turn --------------- *)
\* the signature requests made for the one document
MaxRequestsPerDocument == 2
\* the calls made one after the other: one handler
SequentialHandlers == 1
\* the audit entries of two requests that are verified and signed
MaxArtifactAudit == 6

\* initiate, the OTP that was sent, apply, for each signer of the document in
\* turn; a call starts when the call before it has returned
ArtifactNext ==
    \/ Tick
    \/ \E user_id \in Users :
           initiate_signature_within(MaxRequestsPerDocument, SequentialHandlers,
                                     MaxArtifactAudit, 1, user_id,
                                     <<2, 3, 4, 5, 6, 7, 8, 9, 0, 1, 2, 4>>)
    \/ \E signature_id \in 1..MaxRequestsPerDocument, user_id \in Users :
           verify_otp_select_within(SequentialHandlers, MaxArtifactAudit,
                                    signature_id, DemoOtp, user_id)
    \/ \E h \in InFlight : verify_otp_complete(h)
    \/ \E signature_id \in 1..MaxRequestsPerDocument, user_id \in Users :
           apply_signature_select_within(SequentialHandlers, MaxArtifactAudit,
                                         signature_id, user_id)
    \/ \E h \in InFlight : apply_signature_provider(h)
    \/ \E h \in InFlight : apply_signature_write(h)

ArtifactSpec == Init /\ [][ArtifactNext]_vars

(* ------------------- the signatories of one workflow ------------------- *)
\* signatory ids (SERIAL) used when only the signatories of a workflow change
MaxListedSignatories == 3
\* the e-mail addresses a caller may name
ListedEmails == Emails \union {"c@example.com"}

\* create_workflow, add_signatory and remove_signatory, each call on its own
\* connection
SignatoriesNext ==
    \/ \E document_id \in DocInputs, list \in SignatoryLists,
          signing_order \in SigningOrders :
           create_workflow_within(MaxListedSignatories, document_id, 1, list,
                                  signing_order)
    \/ \E workflow_id \in WorkflowIds, email \in ListedEmails :
           add_signatory_select_within(MaxListedSignatories, workflow_id, email)
    \/ \E h \in WorkflowCallsInFlight : add_signatory_insert(h)
    \/ \E workflow_id \in WorkflowIds, signatory_id \in 1..MaxListedSignatories :
           remove_signatory_select(workflow_id, signatory_id)
    \/ \E h \in WorkflowCallsInFlight : remove_signatory_delete(h)

SignatoriesSpec == Init /\ [][SignatoriesNext]_vars

(* --------------------------- caller isolation -------------------------- *)
\* route /status/<signature_id> and SignatureManager.get_signature_status:
\* the row of the caller, or None and 404 'Signature not found'; reads only
get_signature_status(signature_id, user_id) ==
    /\ response' =
           IF select_signature(signature_id, user_id) = NULL
           THEN respond("get_signature_status", signature_id, FALSE,
                        "Signature not found")
           ELSE respond("get_signature_status", signature_id, TRUE, "none")
    /\ UNCHANGED <<now, is_demo_mode, demo_otps, demo_transactions,
                   digital_signatures, files, certificates, signature_audit_log,
                   handlers, verify_calls, otp_accepted, sign_calls>>
    /\ UNCHANGED workflow_vars
    /\ UNCHANGED stateless_vars

\* the signature routes called by the signer who initiated the request and
\* by other users, within the validity of the OTP
IsolationNext ==
    \/ \E user_id \in Users :
           initiate_signature(1, user_id, <<2, 3, 4, 5, 6, 7, 8, 9, 0, 1, 2, 4>>)
    \/ \E signature_id \in SigIds, user_id \in Users :
           verify_otp_select(signature_id, DemoOtp, user_id)
    \/ \E h \in InFlight : verify_otp_complete(h)
    \/ \E signature_id \in SigIds, user_id \in Users :
           apply_signature_select(signature_id, user_id)
    \/ \E h \in InFlight : apply_signature_provider(h)
    \/ \E h \in InFlight : apply_signature_write(h)
    \/ \E signature_id \in SigIds, user_id \in Users :
           get_signature_status(signature_id, user_id)

IsolationSpec == Init /\ [][IsolationNext]_vars

Next ==
    \/ Tick
    \/ \E document_id \in DocInputs, user_id \in Users, aadhaar \in AadhaarInputs :
           initiate_signature(document_id, user_id, aadhaar)
    \/ \E signature_id \in SigIds, otp \in Otps, user_id \in Users :
           verify_otp_select(signature_id, otp, user_id)
    \/ \E h \in InFlight : verify_otp_complete(h)
    \/ \E signature_id \in SigIds, user_id \in Users :
           apply_signature_select(signature_id, user_id)
    \/ \E h \in InFlight : apply_signature_provider(h)
    \/ \E h \in InFlight : apply_signature_write(h)

Spec == Init /\ [][Next]_vars

(* ------------------------------ claims -------------------------------- *)
Rows == DOMAIN digital_signatures
Status(i) == digital_signatures[i].signature_status
Terminal == {"signed", "failed", "expired"}

\* handler h returns in this step
Returns(h) == handlers' = handlers (-) SetToBag({h})

AllowedStatusChange(a, b) ==
    \/ a = b
    \/ a = "pending" /\ b \in {"otp_sent", "failed"}
    \/ a = "otp_sent" /\ b \in {"verified", "expired", "failed"}
    \/ a = "verified" /\ b \in {"signed", "failed", "expired"}

C2_StateMachine ==
    [][\A i \in Rows :
          AllowedStatusChange(Status(i), digital_signatures'[i].signature_status)]_vars

\* C3: once a row is signed, failed or expired no call changes any of its
\* fields, and the call that finds it so returns an error.
C3_TerminalImmutable ==
    [][\A i \in Rows :
          Status(i) \in Terminal =>
              /\ digital_signatures'[i] = digital_signatures[i]
              /\ \A h \in InFlight :
                     (h.signature_id = i /\ h.signature.signature_status \in Terminal
                      /\ Returns(h)) => ~response'.success]_vars

\* C4: signed_at is set if and only if the status is signed.
C4_SignedAtIffSigned ==
    \A i \in Rows : (digital_signatures[i].signed_at # NULL) <=> (Status(i) = "signed")

\* C5: retry_count never exceeds 3.
C5_RetryCountBounded ==
    \A i \in Rows : digital_signatures[i].retry_count <= MaxOtpRetries

\* C6 as claimed: a verify_otp call that selected the row in otp_sent with
\* retry_count 3 returns 'Maximum OTP retry attempts exceeded', whatever the
\* OTP, without a call to the provider and without a change of the row.
C6_FourthAttemptAlwaysRetryLimit ==
    [][\A h \in InFlight :
          (/\ h.pc = "verify_otp"
           /\ h.signature.signature_status = "otp_sent"
           /\ h.signature.retry_count = MaxOtpRetries
           /\ Returns(h))
          => /\ response'.error = "Maximum OTP retry attempts exceeded"
             /\ digital_signatures' = digital_signatures
             /\ verify_calls' = verify_calls]_vars

\* C6 amended: a verify_otp call that selected the row with retry_count >= 3
\* and runs its checks while expires_at has not passed returns 'Maximum OTP
\* retry attempts exceeded', whatever the OTP, without a call to the provider
\* and without a change of the row or of the audit log; and an attempt below
\* the limit that the provider refuses adds one to retry_count and leaves the
\* status as it is (three refused attempts: otp_sent, retry_count 3).
C6_FourthAttemptRetryLimitUnlessExpired ==
    [][\A h \in InFlight :
          (h.pc = "verify_otp" /\ Returns(h) /\ ~(now > h.signature.expires_at)) =>
              LET id == h.signature_id IN
              IF h.signature.retry_count >= MaxOtpRetries
              THEN /\ response' = respond("verify_otp", id, FALSE,
                                          "Maximum OTP retry attempts exceeded")
                   /\ digital_signatures' = digital_signatures
                   /\ verify_calls' = verify_calls
                   /\ otp_accepted' = otp_accepted
                   /\ signature_audit_log' = signature_audit_log
              ELSE /\ verify_calls'[h.signature.transaction_id] =
                          verify_calls[h.signature.transaction_id] + 1
                   /\ ~response'.success =>
                          /\ digital_signatures'[id].retry_count =
                                 digital_signatures[id].retry_count + 1
                          /\ digital_signatures'[id].signature_status = Status(id)]_vars

C6_Witness ==
    /\ response = respond("verify_otp", 1, FALSE, "Maximum OTP retry attempts exceeded")
    /\ 1 \in Rows
    /\ Status(1) = "otp_sent"
    /\ digital_signatures[1].retry_count = MaxOtpRetries
    /\ verify_calls[1] = MaxOtpRetries

\* C7: calls on one signature_id are serialized: a verify_otp call that
\* returns acted on the row as it then was, that is, the status and the
\* retry_count it selected are still those of the row.
C7_VerifyOtpSerialized ==
    [][\A h \in InFlight :
          (h.pc = "verify_otp" /\ Returns(h)) =>
              /\ h.signature.signature_status = Status(h.signature_id)
              /\ h.signature.retry_count =
                     digital_signatures[h.signature_id].retry_count]_vars

\* C8: apply_signature is idempotent: the provider signs for a transaction
\* at most once, and apply_signature on a signed row reports success.
C8_ApplySignatureIdempotent ==
    /\ \A i \in Rows : sign_calls[digital_signatures[i].transaction_id] <= 1
    /\ (response.op = "apply_signature" /\ response.signature_id \in Rows
        /\ response.error # "Signature request not found"
        /\ Status(response.signature_id) = "signed") => response.success

\* C9: no row is signed at a time later than its expires_at.
C9_NeverSignedAfterExpiry ==
    \A i \in Rows :
        Status(i) = "signed" =>
            digital_signatures[i].signed_at[1] <= digital_signatures[i].expires_at

\* C10: for a signed row, verification of the signed file on disk against
\* the certificate payload generated for that row is valid.
C10_CertificateRoundTrip ==
    \A c \in certificates :
        LET row == digital_signatures[c.signature_id] IN
        (/\ row.signature_status = "signed"
         /\ row.signature_certificate_url = Val(c.certificate_id)
         /\ row.signed_document_hash =
                Val(calculate_hash(files[row.signed_document_url[1]])))
        => verify_signed_document(files[row.signed_document_url[1]], c).valid

\* C11: for every document that can be presented (every file on disk),
\* verification without a certificate payload is valid exactly when some
\* signed row's signed_document_hash is the hash of the presented bytes.
C11_LookupBySignedHash ==
    \A path \in DOMAIN files :
        verify_signed_document_lookup(files[path]).valid
        <=> \E i \in Rows :
                /\ Status(i) = "signed"
                /\ digital_signatures[i].signed_document_hash =
                       Val(calculate_hash(files[path]))

(* -------------------------- claims on workflows ------------------------ *)
Workflows == DOMAIN signature_workflows

\* C12: a workflow is completed if and only if signed_count equals
\* total_signatories.
C12_CompletedIffAllSigned ==
    \A w \in Workflows :
        (signature_workflows[w].workflow_status = "completed")
        <=> (signature_workflows[w].signed_count =
                 signature_workflows[w].total_signatories)

\* C13: signed_count never exceeds total_signatories.
C13_SignedCountAtMostTotal ==
    \A w \in Workflows :
        signature_workflows[w].signed_count <=
            signature_workflows[w].total_signatories

\* C14: each time the signature request for the document of a workflow that
\* has signatories reaches signed, signed_count of that workflow is
\* incremented by one.
C14_CompletionCounted ==
    [][\A i \in Rows :
          (digital_signatures'[i].signature_status = "signed"
           /\ Status(i) # "signed") =>
              \A w \in Workflows :
                  (signature_workflows[w].document_id =
                       digital_signatures[i].document_id
                   /\ signatories_of(w) # {}) =>
                      signature_workflows'[w].signed_count =
                          signature_workflows[w].signed_count + 1]_vars

\* C15: in a sequential workflow, send_signature_request for a signatory that
\* has an earlier-ordered signatory not yet signed returns OutOfOrder, sends
\* no notification and does not make the signatory notified.
C15_SequentialOutOfOrder ==
    LET id == workflow_response.signature_id IN
    (/\ workflow_response.op = "send_signature_request"
     /\ id \in DOMAIN signatories
     /\ signatories[id] # NULL
     /\ signature_workflows[signatories[id][1].workflow_id].signing_order =
            "sequential"
     /\ \E j \in signatories_of(signatories[id][1].workflow_id) :
            /\ signatories[j][1].signing_order < signatories[id][1].signing_order
            /\ signatories[j][1].status # "signed")
    => /\ workflow_response.error = "OutOfOrder"
       /\ ~workflow_response.success
       /\ id \notin notifications
       /\ signatories[id][1].status # "notified"

(* ----------------------- claims on provider failures ------------------- *)
\* C16: a verify_otp attempt that fails because the provider could not be
\* reached ('Unable to verify OTP') leaves retry_count unchanged.
C16_ProviderUnavailableKeepsRetryCount ==
    [][\A h \in InFlight :
          (h.pc = "verify_otp" /\ Returns(h)
           /\ response'.error = "Unable to verify OTP") =>
              digital_signatures'[h.signature_id].retry_count =
                  digital_signatures[h.signature_id].retry_count]_vars

\* C17: a transport failure of the provider call of apply_signature ('Unable
\* to apply signature') leaves the status of the request as it was: a
\* verified request stays verified and is not moved to failed.
C17_SignTimeoutKeepsVerified ==
    [][\A h \in InFlight :
          (h.pc = "apply_write" /\ Returns(h)
           /\ h.sign_response.error = Val("Unable to apply signature")) =>
              digital_signatures'[h.signature_id].signature_status =
                  Status(h.signature_id)]_vars

\* C18: a provider call that returns an error leaves a failed request that
\* records the message: request_otp refused in initiate_signature, and the
\* signing refused in apply_signature.
C18_ProviderErrorFails ==
    [][/\ (response'.op = "initiate_signature" /\ response' # response
           /\ response'.error = "OTP request failed") =>
              \E i \in DOMAIN digital_signatures' :
                  /\ digital_signatures'[i].signature_status = "failed"
                  /\ digital_signatures'[i].error_message = Val("OTP request failed")
       /\ \A h \in InFlight :
              (h.pc = "apply_write" /\ Returns(h)
               /\ h.sign_response.error = Val("Signature application failed")) =>
                  /\ digital_signatures'[h.signature_id].signature_status = "failed"
                  /\ digital_signatures'[h.signature_id].error_message =
                         Val("Signature application failed")]_vars

\* C19: when the certificate is not written after the provider signed,
\* apply_signature still returns success and the row is signed with signed_at,
\* signed_document_hash and signed_document_url stored.
C19_CertificateFailureKeepsSigned ==
    [][\A h \in InFlight :
          (h.pc = "apply_write" /\ Returns(h) /\ h.sign_response.success
           /\ digital_signatures'[h.signature_id].signature_certificate_url = NULL) =>
              LET after == digital_signatures'[h.signature_id] IN
              /\ response' = respond("apply_signature", h.signature_id, TRUE, "none")
              /\ after.signature_status = "signed"
              /\ after.signed_at = Val(now)
              /\ after.signed_document_url = h.sign_response.signed_document_path
              /\ after.signed_document_hash =
                     Val(calculate_hash(files[h.sign_response.signed_document_path[1]]))]_vars

C19_Witness ==
    /\ response.op = "apply_signature"
    /\ response.success
    /\ response.signature_id \in Rows
    /\ Status(response.signature_id) = "signed"
    /\ digital_signatures[response.signature_id].signature_certificate_url = NULL
    /\ digital_signatures[response.signature_id].signed_at # NULL
    /\ certificates = {}

\* C20: every verify_otp attempt that runs to its end, whatever its outcome,
\* appends one entry for the request to the audit log before it returns.
C20_EveryAttemptAudited ==
    [][\A h \in InFlight :
          (h.pc = "verify_otp" /\ Returns(h)) =>
              \E event_type \in {"otp_verified", "otp_verification_failed",
                                 "otp_expired", "otp_retry_limit"} :
                  signature_audit_log' =
                      log_audit(h.signature_id, event_type, h.user_id)]_vars

(* ---------------------- claims on certificate ids ---------------------- *)
\* C21: the certificate id is reversible: get_certificate_by_id on the id
\* generated for a signature id looks up exactly that signature id, whatever
\* its magnitude.
C21_CertificateIdReversible ==
    certificate_lookup.called =>
        certificate_lookup.signature_id = Val(certificate_for)

(* ------------------------ claims on the validator ---------------------- *)
\* every step of the checksum is injective: each row of p_table and each row
\* and each column of d_table holds every digit once
DigitStepInjective ==
    /\ \A i \in 1..8 : \A x, y \in 1..10 :
           p_table[i][x] = p_table[i][y] => x = y
    /\ \A c \in 1..10 : \A x, y \in 1..10 :
           d_table[c][x] = d_table[c][y] => x = y
    /\ \A x \in 1..10 : \A c, e \in 1..10 :
           d_table[c][x] = d_table[e][x] => c = e

\* the positions at which two numbers of one length differ
DifferAt(a, b) == {k \in DOMAIN a : a[k] # b[k]}

\* C23: for every 12-digit number that validate accepts, the number with a
\* single digit replaced by a different digit is rejected by validate; every
\* digit step of the checksum is injective.
C23_SingleDigitMutationRejected ==
    /\ DigitStepInjective
    /\ (/\ aadhaar_number # <<>>
        /\ validate(aadhaar_number).ok
        /\ Len(validation.number) = Len(aadhaar_number)
        /\ Cardinality(DifferAt(aadhaar_number, validation.number)) = 1)
       => ~validation.ok

C23_Witness ==
    /\ aadhaar_number # <<>>
    /\ validate(aadhaar_number).ok
    /\ Len(validation.number) = 12
    /\ DifferAt(aadhaar_number, validation.number) = {7}
    /\ validation.number[1] \notin {0, 1}
    /\ ~validation.ok
    /\ validation.message = "checksum failed"

(* --------------------- claims on the simulated mode -------------------- *)
\* the messages with which initiate_signature refuses its input
InputErrors ==
    {"must be exactly 12 digits", "cannot start with 0 or 1", "checksum failed",
     "Document not found"}

\* C22: the happy path in demo mode, each call made on the row as the call
\* before left it.  initiate_signature with a checksum-valid number and an
\* existing document never fails and inserts a row in otp_sent whose
\* expires_at is 10 minutes after now; a verify_otp with the demo OTP that
\* runs on the otp_sent row before expires_at, below the retry limit, returns
\* success and leaves the row verified; an apply_signature whose provider call
\* signed and whose row is still the verified row it selected returns success
\* and leaves the row signed.
C22_DemoHappyPath ==
    [][is_demo_mode =>
       /\ (response'.op = "initiate_signature" /\ response' # response
           /\ response'.error \notin InputErrors) =>
              /\ response'.success
              /\ Len(digital_signatures') = Len(digital_signatures) + 1
       /\ Len(digital_signatures') > Len(digital_signatures) =>
              LET row == digital_signatures'[Len(digital_signatures')] IN
              /\ digital_signatures' = Append(digital_signatures, row)
              /\ row.signature_status = "otp_sent"
              /\ row.expires_at = now + OtpValidityMinutes
              /\ row.retry_count = 0
              /\ row.signed_at = NULL
       /\ \A h \in InFlight :
              (/\ h.pc = "verify_otp"
               /\ Returns(h)
               /\ h.otp = DemoOtp
               /\ digital_signatures[h.signature_id] = h.signature
               /\ h.signature.signature_status = "otp_sent"
               /\ h.signature.retry_count < MaxOtpRetries
               /\ now <= h.signature.expires_at) =>
                  /\ response' = respond("verify_otp", h.signature_id, TRUE, "none")
                  /\ digital_signatures'[h.signature_id].signature_status = "verified"
       /\ \A h \in InFlight :
              (/\ h.pc = "apply_write"
               /\ Returns(h)
               /\ h.sign_response.success
               /\ digital_signatures[h.signature_id] = h.signature) =>
                  /\ h.signature.signature_status = "verified"
                  /\ response' = respond("apply_signature", h.signature_id, TRUE, "none")
                  /\ digital_signatures'[h.signature_id].signature_status = "signed"
                  /\ digital_signatures'[h.signature_id].signed_at = Val(now)]_vars

\* a request went through otp_sent, verified and signed with one call each
C22_Witness ==
    /\ is_demo_mode
    /\ 1 \in Rows
    /\ Status(1) = "signed"
    /\ digital_signatures[1].retry_count = 0
    /\ verify_calls[1] = 1
    /\ sign_calls[1] = 1
    /\ digital_signatures[1].otp_verified_time[1] <= digital_signatures[1].expires_at
    /\ signature_audit_log =
           SetToBag({audit_entry(1, "otp_requested", 1),
                     audit_entry(1, "otp_verified", 1),
                     audit_entry(1, "document_signed", 1)})
    /\ response = respond("apply_signature", 1, TRUE, "none")

C25_ExpiredBeforeRetryLimit ==
    [][\A h \in InFlight :
          (/\ h.pc = "verify_otp"
           /\ Returns(h)
           /\ h.signature.signature_status = "otp_sent"
           /\ now > h.signature.expires_at) =>
              LET id == h.signature_id IN
              /\ response' = respond("verify_otp", id, FALSE, "OTP expired")
              /\ digital_signatures' =
                     [digital_signatures EXCEPT ![id].signature_status = "expired"]
              /\ digital_signatures'[id].retry_count =
                     digital_signatures[id].retry_count
              /\ verify_calls' = verify_calls
              /\ otp_accepted' = otp_accepted]_vars

\* three refused attempts, then an attempt after expires_at
C25_Witness ==
    /\ response = respond("verify_otp", 1, FALSE, "OTP expired")
    /\ 1 \in Rows
    /\ Status(1) = "expired"
    /\ digital_signatures[1].retry_count = MaxOtpRetries
    /\ verify_calls[1] = MaxOtpRetries
    /\ now > digital_signatures[1].expires_at

(* -------------------------- claims on reminders ------------------------ *)
\* C26: send_reminders on a workflow reminds exactly its signatories that are
\* notified or viewed and whose last reminder is absent or older than 24
\* hours, stamps the reminder time of each of them, returns their number, and
\* changes no status and no other signatory.
C26_RemindersToThoseDue ==
    [][(workflow_response'.op = "send_reminders"
        /\ workflow_response' # workflow_response) =>
          LET due == reminders_due(workflow_response'.workflow_id) IN
          /\ workflow_response'.success
          /\ workflow_response'.reminded_count = Cardinality(due)
          /\ DOMAIN signatories' = DOMAIN signatories
          /\ \A i \in DOMAIN signatories :
                 IF i \in due
                 THEN signatories'[i] =
                          Val([signatories[i][1] EXCEPT
                                  !.last_reminder_at = Val(now)])
                 ELSE signatories'[i] = signatories[i]]_vars

(* ---------------------- claims on the signed file ---------------------- *)
\* C27: for every signed row, the file stored at its signed_document_url
\* hashes to its signed_document_hash, also after a second request for the
\* same document was signed.
C27_SignedArtifactIntegrity ==
    \A i \in Rows :
        Status(i) = "signed" =>
            /\ digital_signatures[i].signed_document_url # NULL
            /\ digital_signatures[i].signed_document_url[1] \in DOMAIN files
            /\ digital_signatures[i].signed_document_hash =
                   Val(calculate_hash(files[digital_signatures[i].signed_document_url[1]]))

(* ---------------- claims on the signatories of a workflow -------------- *)
\* C28: for every workflow, total_signatories is the number of rows of
\* signatories of that workflow, and is never negative.
C28_TotalIsNumberOfSignatories ==
    \A w \in Workflows :
        /\ signature_workflows[w].total_signatories >= 0
        /\ signature_workflows[w].total_signatories = Cardinality(signatories_of(w))

\* C30: within one workflow the signing_order values of its signatories are
\* pairwise distinct.
C30_OrdersDistinct ==
    \A w \in Workflows :
        \A i, j \in signatories_of(w) :
            signatories[i][1].signing_order = signatories[j][1].signing_order
                => i = j

(* ------------------------ claims on caller isolation ------------------- *)
\* everything but the response
AllButResponse ==
    <<now, is_demo_mode, demo_otps, demo_transactions, digital_signatures, files,
      certificates, signature_audit_log, handlers, verify_calls, otp_accepted,
      sign_calls, workflow_vars, stateless_vars>>

\* C29: verify_otp, apply_signature and get_signature_status called for a row
\* with a user_id other than the one that initiated it answer 'not found' and
\* change nothing: no field of any row, no call of the provider, no audit
\* entry, no handler started; and every call in flight works on a row of its
\* own caller.
C29_CallerIsolation ==
    [][/\ \A i \in Rows : \A u \in Users :
              u # digital_signatures[i].user_id =>
                  /\ (\E otp \in Otps : verify_otp_select(i, otp, u)) =>
                         /\ response' = respond("verify_otp", i, FALSE,
                                                "Signature request not found")
                         /\ UNCHANGED AllButResponse
                  /\ apply_signature_select(i, u) =>
                         /\ response' = respond("apply_signature", i, FALSE,
                                                "Signature request not found")
                         /\ UNCHANGED AllButResponse
                  /\ get_signature_status(i, u) =>
                         /\ response' = respond("get_signature_status", i, FALSE,
                                                "Signature not found")
                         /\ UNCHANGED AllButResponse
       /\ \A h \in BagToSet(handlers') :
              /\ h.signature_id \in DOMAIN digital_signatures'
              /\ digital_signatures'[h.signature_id].user_id = h.user_id]_vars

\* each of the three calls was answered 'not found' for a row that exists
C29_Witness ==
    /\ 1 \in Rows
    /\ Status(1) = "verified"
    /\ response.op = "apply_signature"
    /\ response.signature_id = 1
    /\ response.error = "Signature request not found"
    /\ sign_calls[1] = 0
    /\ BagCardinality(signature_audit_log) = 2

====
